---- MODULE Spec2Model ----
(***************************************************************************)
(* The development-mode supervisor of celaris-cli (src/functions.js):      *)
(* runDev starts the Vite server, waits for it, builds and launches the    *)
(* native binary (buildAndStartCpp), then watches the source tree and      *)
(* rebuilds, debounced by a 500 ms timer, on every change; cleanUp runs on *)
(* SIGINT / SIGTERM.                                                       *)
(*                                                                         *)
(* One action is one turn of the Node event loop: a callback together with *)
(* every promise continuation (microtask) and nextTick callback it makes   *)
(* runnable.  Times are in milliseconds.                                   *)
(***************************************************************************)
EXTENDS Integers, Sequences, FiniteSets, TLC

VARIABLES
  pc,            \* position of runDev: "start", "waiting", "building", "running", "aborted"
  options,       \* the CLI options record, "null" before runDev
  viteProcess,   \* [handle, signals]: the spawned `npm run dev` and the kills sent to it
  watcher,       \* "null", "active", "closed"
  cppProcess,    \* index into procs of the recorded native handle, 0 for null
  buildCommands, \* the module-level array last assigned by buildAndStartCpp
  buildTimeout,  \* index into timers of the recorded timer handle, 0 for null
  firstRun,
  sigHandlers,   \* whether process.on('SIGINT'/'SIGTERM', cleanUp) has run
  procs,         \* every child handle spawn(executablePath) returned
  invs,          \* every buildAndStartCpp invocation, in order of entry
  timers,        \* every timer setTimeout created, in order of creation
  now,           \* the clock; it stands at 0 until the first change event
  exitStatus,    \* "running", "exit0", "exit1" (uncaught error), "signal" (default disposition)
  shutdownLog,   \* what cleanUp did, in order
  fsLog          \* every file-system event chokidar observed, in order

vars == <<pc, options, viteProcess, watcher, cppProcess, buildCommands, buildTimeout,
          firstRun, sigHandlers, procs, invs, timers, now, exitStatus, shutdownLog, fsLog>>

(***************************************************************************)
(* Bounds of the model and constants of the program                        *)
(***************************************************************************)
MaxChanges == 3      \* change events delivered by the watcher
MaxTicks == 12       \* clock ticks after the first change event
TickMs == 100        \* resolution of the clock
MaxFsEvents == 2     \* file-system events of any kind in one session (SpecWatch)
DebounceMs == 500    \* setTimeout(..., 500)

Signals == {"SIGINT", "SIGTERM"}
ExitCodes == {0, 1}                        \* exit code of a build step's shell
LaunchOutcomes == {"ok", "enoent", "throw"} \* spawn(...): started; failed with an 'error'
                                           \* event (ENOENT, EACCES, EAGAIN); threw synchronously
SpawnThrew == -1                           \* recorded in place of an exit code when the spawn
                                           \* of a step threw and the step promise rejected at once
OptionSets == [build : BOOLEAN, tests : BOOLEAN]

Configure == "configure"   \* cmake -S . -B ./src-celaris/build
Compile == "compile"       \* cmake --build ./src-celaris/build --config Debug
Test == "test"             \* ctest --test-dir ./src-celaris/build -C Debug

(***************************************************************************)
(* The part of the state buildAndStartCpp and the continuation of runDev   *)
(* act on, as one record, so that the steps of one event-loop turn compose *)
(***************************************************************************)
Cur ==
  [pc |-> pc, watcher |-> watcher, cppProcess |-> cppProcess,
   buildCommands |-> buildCommands, firstRun |-> firstRun,
   sigHandlers |-> sigHandlers, procs |-> procs, invs |-> invs,
   exitStatus |-> exitStatus]

Set(s) ==
  /\ pc' = s.pc
  /\ watcher' = s.watcher
  /\ cppProcess' = s.cppProcess
  /\ buildCommands' = s.buildCommands
  /\ firstRun' = s.firstRun
  /\ sigHandlers' = s.sigHandlers
  /\ procs' = s.procs
  /\ invs' = s.invs
  /\ exitStatus' = s.exitStatus

\* variant of Kill: no signal is sent
KillNever(ps, h) == ps

\* variant of Kill: the signal is sent whether or not the handle is still open
KillAlways(ps, h) ==
  IF h = 0 THEN ps ELSE [ps EXCEPT ![h].signals = @ + 1]

\* ChildProcess.kill(): a signal is sent only while the handle is open
Kill(ps, h) ==
  IF h = 0 \/ ~ps[h].alive THEN ps
  ELSE [ps EXCEPT ![h].signals = @ + 1]

\* variant of BuildCommandsFor: --no-build honoured on every invocation
BuildCommandsSkipAlways(first, opts) ==
  IF opts.build # FALSE
  THEN <<Configure, Compile>> \o (IF opts.tests # FALSE THEN <<Test>> ELSE <<>>)
  ELSE <<>>

\* variant of BuildCommandsFor: --no-tests not consulted
BuildCommandsAlwaysTest(first, opts) ==
  IF ~first \/ opts.build # FALSE THEN <<Configure, Compile, Test>> ELSE <<>>

\* variant of BuildCommandsFor: the compile step pushed before the configure step
BuildCommandsSwapped(first, opts) ==
  IF ~first \/ opts.build # FALSE
  THEN <<Compile, Configure>> \o (IF opts.tests # FALSE THEN <<Test>> ELSE <<>>)
  ELSE <<>>

\* functions.js 50-61: the steps of one invocation
BuildCommandsFor(first, opts) ==
  IF ~first \/ opts.build # FALSE
  THEN <<Configure, Compile>> \o (IF opts.tests # FALSE THEN <<Test>> ELSE <<>>)
  ELSE <<>>

\* functions.js 138-161: runDev after `await buildAndStartCpp()`
WatchAndRegister(s) ==
  [s EXCEPT !.watcher = "active", !.sigHandlers = TRUE, !.pc = "running"]

\* the awaiting caller of invocation i resumes: runDev for the initial one,
\* nobody for a timer's (the timer callback does not await)
Resume(s, i) ==
  IF s.invs[i].trigger = "initial" THEN WatchAndRegister(s) ELSE s

\* functions.js 67-88: the .then callback, with the outcome o of spawn
Launch(s, i, o) ==
  CASE o = "ok" ->
         [s EXCEPT !.procs = Append(@, [alive |-> TRUE, signals |-> 0, inv |-> i]),
                   !.cppProcess = Len(s.procs) + 1,
                   !.invs[i].result = "launched",
                   !.invs[i].proc = Len(s.procs) + 1]
    [] o = "enoent" ->
         \* spawn returns a handle that never ran; its 'error' event has no listener
         [s EXCEPT !.procs = Append(@, [alive |-> FALSE, signals |-> 0, inv |-> i]),
                   !.cppProcess = Len(s.procs) + 1,
                   !.invs[i].result = "launchError",
                   !.invs[i].proc = Len(s.procs) + 1]
    [] OTHER ->
         \* spawn threw: .catch logs "Build failed", cppProcess keeps the old handle
         [s EXCEPT !.invs[i].result = "launchThrew"]

\* the unhandled 'error' event of a failed spawn ends the process on nextTick
Crash(s, i) ==
  IF s.invs[i].result = "launchError" THEN [s EXCEPT !.exitStatus = "exit1"] ELSE s

\* runBuildCommands resolved: launch, then the caller resumes, then nextTick
Succeed(s, i, o) == Crash(Resume(Launch(s, i, o), i), i)

\* variant of Fail: no .catch, the rejection ends the process
FailUncaught(s, i) ==
  [s EXCEPT !.invs[i].result = "failed", !.exitStatus = "exit1"]

\* runBuildCommands rejected: .catch logs the error, then the caller resumes
Fail(s, i) == Resume([s EXCEPT !.invs[i].result = "failed"], i)

\* functions.js 19-29: the next step of invocation i is spawned, with outcome o.  The step
\* promise listens to 'close' only: an 'error' event of the child is an uncaught exception
\* that ends the process on nextTick; a throw of spawn inside the promise executor rejects
StartStep(s, i, o) ==
  LET inv == s.invs[i]
      s1 == [s EXCEPT !.invs[i].started = Append(@, inv.cmds[Len(inv.started) + 1])]
  IN CASE o = "ok" -> s1
       [] o = "enoent" -> [s1 EXCEPT !.invs[i].result = "spawnError", !.exitStatus = "exit1"]
       [] OTHER -> Fail([s1 EXCEPT !.invs[i].codes = Append(@, SpawnThrew)], i)

\* variant of AfterClose: the exit code is not looked at
AfterCloseAnyCode(s, i, code, o) ==
  LET inv == s.invs[i]
      k == Len(inv.started)
      s1 == [s EXCEPT !.invs[i].codes = Append(@, code)]
  IN IF k < Len(inv.cmds) THEN StartStep(s1, i, o) ELSE Succeed(s1, i, o)

\* functions.js 18-30: the loop of runBuildCommands after the running step
\* closed with `code`; o is the outcome of the spawn this turn comes to, if
\* any: of the next step, or of the executable after the last step
AfterClose(s, i, code, o) ==
  LET inv == s.invs[i]
      k == Len(inv.started)
      s1 == [s EXCEPT !.invs[i].codes = Append(@, code)]
  IN IF code # 0 THEN Fail(s1, i)
     ELSE IF k < Len(inv.cmds) THEN StartStep(s1, i, o) ELSE Succeed(s1, i, o)

\* variant of Enter: firstRun is left as it is
EnterKeepFirstRun(s, trigger, timer, o) ==
  LET cmds == BuildCommandsFor(s.firstRun, options)
      i  == Len(s.invs) + 1
      inv == [trigger |-> trigger, timer |-> timer, at |-> now,
              first |-> s.firstRun, killed |-> s.cppProcess,
              sent |-> Kill(s.procs, s.cppProcess) # s.procs,
              cmds |-> cmds,
              started |-> <<>>,
              codes |-> <<>>, result |-> "running", proc |-> 0]
      s1 == [s EXCEPT !.procs = Kill(@, s.cppProcess),
                      !.buildCommands = cmds,
                      !.invs = Append(@, inv)]
  IN IF cmds = <<>> THEN Succeed(s1, i, o) ELSE StartStep(s1, i, o)

\* functions.js 43-66: buildAndStartCpp up to its first suspension
Enter(s, trigger, timer, o) ==
  LET cmds == BuildCommandsFor(s.firstRun, options)
      i  == Len(s.invs) + 1
      inv == [trigger |-> trigger, timer |-> timer, at |-> now,
              first |-> s.firstRun, killed |-> s.cppProcess,
              sent |-> Kill(s.procs, s.cppProcess) # s.procs,
              cmds |-> cmds,
              started |-> <<>>,
              codes |-> <<>>, result |-> "running", proc |-> 0]
      s1 == [s EXCEPT !.procs = Kill(@, s.cppProcess),
                      !.buildCommands = cmds,
                      !.firstRun = FALSE,
                      !.invs = Append(@, inv)]
  IN IF cmds = <<>> THEN Succeed(s1, i, o) ELSE StartStep(s1, i, o)

(***************************************************************************)
(* Initial state: the module-level `let`s of functions.js 8-14             *)
(***************************************************************************)
Init ==
  /\ pc = "start"
  /\ options = "null"
  /\ viteProcess = [handle |-> FALSE, signals |-> 0]
  /\ watcher = "null"
  /\ cppProcess = 0
  /\ buildCommands = <<>>
  /\ buildTimeout = 0
  /\ firstRun = TRUE
  /\ sigHandlers = FALSE
  /\ procs = <<>>
  /\ invs = <<>>
  /\ timers = <<>>
  /\ now = 0
  /\ exitStatus = "running"
  /\ shutdownLog = <<>>
  /\ fsLog = <<>>

Alive == exitStatus = "running"

(***************************************************************************)
(* runDev                                                                  *)
(***************************************************************************)
\* functions.js 119-130: options recorded, Vite spawned, waitOn started
RunDev ==
  /\ Alive /\ pc = "start"
  /\ \E opts \in OptionSets : options' = opts
  /\ viteProcess' = [viteProcess EXCEPT !.handle = TRUE]
  /\ pc' = "waiting"
  /\ UNCHANGED <<watcher, cppProcess, buildCommands, buildTimeout, firstRun, sigHandlers,
                 procs, invs, timers, now, exitStatus, shutdownLog, fsLog>>

\* variant of ServerTimeout: the web server is killed before runDev rejects
ServerTimeoutKillsServer ==
  /\ Alive /\ pc = "waiting"
  /\ pc' = "aborted"
  /\ viteProcess' = [viteProcess EXCEPT !.signals = @ + 1]
  /\ \E st \in {"exit1", "running"} : exitStatus' = st
  /\ UNCHANGED <<options, watcher, cppProcess, buildCommands, buildTimeout,
                 firstRun, sigHandlers, procs, invs, timers, now, shutdownLog, fsLog>>

\* variant of ServerTimeout: the rejection of waitOn is logged and runDev goes on
ServerTimeoutLogged ==
  /\ Alive /\ pc = "waiting"
  /\ \E o \in LaunchOutcomes :
       Set(Enter([Cur EXCEPT !.pc = "aborted"], "initial", 0, o))
  /\ UNCHANGED <<options, viteProcess, buildTimeout, timers, now, shutdownLog, fsLog>>

\* waitOn rejects after its timeout: runDev rejects, and nobody awaits or
\* catches it (the dev action calls runDev(options) bare).  Node >= 15 ends
\* the process on the unhandled rejection; older ones only warn.
ServerTimeout ==
  /\ Alive /\ pc = "waiting"
  /\ pc' = "aborted"
  /\ \E st \in {"exit1", "running"} : exitStatus' = st
  /\ UNCHANGED <<options, viteProcess, watcher, cppProcess, buildCommands, buildTimeout,
                 firstRun, sigHandlers, procs, invs, timers, now, shutdownLog, fsLog>>

\* waitOn resolves: the initial `await buildAndStartCpp()`
ServerReady ==
  /\ Alive /\ pc = "waiting"
  /\ \E o \in LaunchOutcomes :
       Set(Enter([Cur EXCEPT !.pc = "building"], "initial", 0, o))
  /\ UNCHANGED <<options, viteProcess, buildTimeout, timers, now, shutdownLog, fsLog>>

\* the 'close' event of the running step of invocation i
StepClose ==
  /\ Alive
  /\ \E i \in 1..Len(invs) :
       /\ invs[i].result = "running"
       /\ \E code \in ExitCodes, o \in LaunchOutcomes :
            Set(AfterClose(Cur, i, code, o))
  /\ UNCHANGED <<options, viteProcess, buildTimeout, timers, now, shutdownLog, fsLog>>

(***************************************************************************)
(* Watcher and debounce timer (functions.js 147-155)                       *)
(***************************************************************************)
\* variant of Deadline: the delay doubled
DeadlineDoubled(t) == t.setAt + 2 * DebounceMs

\* variant of Deadline: the countdown is not restarted, it runs from the first event
DeadlineFromFirst(t) == timers[1].setAt + DebounceMs

Deadline(t) == t.setAt + DebounceMs

\* variant of ClearTimeout: the pending timer is not cancelled
ClearTimeoutNone(ts, h) == ts

\* variant of ClearTimeout: the handle before the recorded one is cleared
ClearTimeoutStale(ts, h) ==
  IF h > 1 /\ ts[h - 1].state = "pending" THEN [ts EXCEPT ![h - 1].state = "cleared"] ELSE ts

\* clearTimeout(h): a pending timer is cancelled, any other is left alone
ClearTimeout(ts, h) ==
  IF h # 0 /\ ts[h].state = "pending" THEN [ts EXCEPT ![h].state = "cleared"] ELSE ts

\* the 'change' handler
ChangeHandler ==
  /\ timers' = Append(ClearTimeout(timers, buildTimeout),
                      [setAt |-> now, state |-> "pending"])
  /\ buildTimeout' = Len(timers) + 1

\* functions.js 138-145: the watch root is src-celaris, its build and test
\* directories are ignored; a path is named by the directory it lies in
Paths == {"src-celaris", "src-celaris/build", "src-celaris/test"}
Ignored(path) == path \in {"src-celaris/build", "src-celaris/test"}

\* functions.js 147-156: of chokidar's file events only 'change' has a
\* listener, the 'add' and 'unlink' listeners are commented out
FsKinds == {"add", "change", "unlink"}
Registered == {"change"}

\* variant of Dispatched: every kind of file event reaches the handler
DispatchedAnyKind(kind, path) == ~Ignored(path)

Dispatched(kind, path) == ~Ignored(path) /\ kind \in Registered

\* a modification of a watched source file: the 'change' listener runs
OnChange ==
  /\ Alive /\ watcher = "active"
  /\ Len(timers) < MaxChanges
  /\ ChangeHandler
  /\ fsLog' = Append(fsLog, [kind |-> "change", path |-> "src-celaris"])
  /\ UNCHANGED <<pc, options, viteProcess, watcher, cppProcess, buildCommands, firstRun,
                 sigHandlers, procs, invs, now, exitStatus, shutdownLog>>

\* any file-system event below the watch root, as chokidar sees it: it runs
\* the 'change' listener if it is dispatched to it, and nothing otherwise
FsEvent ==
  /\ Alive /\ watcher = "active"
  /\ Len(fsLog) < MaxFsEvents /\ Len(timers) < MaxChanges
  /\ \E kind \in FsKinds, path \in Paths :
       /\ fsLog' = Append(fsLog, [kind |-> kind, path |-> path])
       /\ IF Dispatched(kind, path)
          THEN ChangeHandler
          ELSE UNCHANGED <<timers, buildTimeout>>
  /\ UNCHANGED <<pc, options, viteProcess, watcher, cppProcess, buildCommands, firstRun,
                 sigHandlers, procs, invs, now, exitStatus, shutdownLog>>

\* the timer callback: buildAndStartCpp(), not awaited
TimerFire ==
  /\ Alive
  /\ \E k \in 1..Len(timers) :
       /\ timers[k].state = "pending"
       /\ now >= Deadline(timers[k])
       /\ timers' = [timers EXCEPT ![k].state = "fired"]
       /\ \E o \in LaunchOutcomes : Set(Enter(Cur, "change", k, o))
  /\ UNCHANGED <<options, viteProcess, buildTimeout, now, shutdownLog, fsLog>>

Pending == {k \in 1..Len(timers) : timers[k].state = "pending"}

\* time passes, never past the deadline of a pending timer
Tick ==
  /\ Alive /\ timers # <<>>
  /\ now < MaxTicks * TickMs
  /\ \A k \in Pending : now < Deadline(timers[k])
  /\ \E d \in 1..TickMs :
       /\ d = TickMs \/ \E k \in Pending : now + d = Deadline(timers[k])
       /\ \A k \in Pending : now + d <= Deadline(timers[k])
       /\ now' = now + d
  /\ UNCHANGED <<pc, options, viteProcess, watcher, cppProcess, buildCommands, buildTimeout,
                 firstRun, sigHandlers, procs, invs, timers, exitStatus, shutdownLog, fsLog>>

(***************************************************************************)
(* Environment: a native process ends (by the signal sent or by itself)    *)
(***************************************************************************)
NativeExit ==
  /\ Alive
  /\ \E p \in 1..Len(procs) :
       /\ procs[p].alive
       /\ procs' = [procs EXCEPT ![p].alive = FALSE]
  /\ UNCHANGED <<pc, options, viteProcess, watcher, cppProcess, buildCommands, buildTimeout,
                 firstRun, sigHandlers, invs, timers, now, exitStatus, shutdownLog, fsLog>>

(***************************************************************************)
(* cleanUp (functions.js 99-106) and the signals                           *)
(***************************************************************************)
\* variant of CleanUp: the watcher closed and the process ended before the kills
CleanUpExitFirst ==
  /\ procs' = procs
  /\ viteProcess' = viteProcess
  /\ watcher' = "closed"
  /\ exitStatus' = "exit0"
  /\ shutdownLog' = <<"closeWatcher", "exit">>
  /\ UNCHANGED <<pc, options, cppProcess, buildCommands, buildTimeout, firstRun,
                 sigHandlers, invs, timers, now, fsLog>>

\* variant of CleanUp: the kills and the close without the process.exit()
CleanUpNoExit ==
  /\ procs' = Kill(procs, cppProcess)
  /\ viteProcess' = [viteProcess EXCEPT !.signals = @ + 1]
  /\ watcher' = "closed"
  /\ exitStatus' = exitStatus
  /\ shutdownLog' = shutdownLog \o <<"killWeb", "closeWatcher">>
  /\ UNCHANGED <<pc, options, cppProcess, buildCommands, buildTimeout, firstRun,
                 sigHandlers, invs, timers, now, fsLog>>

\* the statements of cleanUp that can run, in program order
CleanUpSteps ==
  (IF cppProcess # 0 THEN <<"killNative">> ELSE <<>>) \o <<"killWeb", "closeWatcher", "exit">>

\* variant of CleanUp: the running build steps are killed too, their pipelines reject
CleanUpKillsSteps ==
  /\ procs' = Kill(procs, cppProcess)
  /\ viteProcess' = [viteProcess EXCEPT !.signals = @ + 1]
  /\ watcher' = "closed"
  /\ exitStatus' = "exit0"
  /\ shutdownLog' = CleanUpSteps
  /\ invs' = [i \in 1..Len(invs) |->
               IF invs[i].result = "running" THEN [invs[i] EXCEPT !.result = "failed"]
               ELSE invs[i]]
  /\ UNCHANGED <<pc, options, cppProcess, buildCommands, buildTimeout, firstRun,
                 sigHandlers, timers, now, fsLog>>

\* the statement of cleanUp that raises, if any: kill() raises when the signal cannot be
\* delivered to an open handle (it emits 'error', which has no listener), close() when a
\* closer of the watcher throws; nothing in cleanUp catches
CleanUpFaults ==
  {"none", "killWeb", "closeWatcher"}
    \cup (IF cppProcess # 0 /\ procs[cppProcess].alive THEN {"killNative"} ELSE {})

\* the statements cleanUp completes when `fault` raises: those before it
Completed(fault) ==
  IF fault = "none" THEN CleanUpSteps
  ELSE LET n == CHOOSE j \in 1..Len(CleanUpSteps) : CleanUpSteps[j] = fault
       IN SubSeq(CleanUpSteps, 1, n - 1)

Did(done, step) == \E j \in 1..Len(done) : done[j] = step

CleanUp ==
  \E fault \in CleanUpFaults :
    LET done == Completed(fault) IN
    /\ procs' = IF Did(done, "killNative") THEN Kill(procs, cppProcess) ELSE procs
    /\ viteProcess' = IF Did(done, "killWeb")
                      THEN [viteProcess EXCEPT !.signals = @ + 1] ELSE viteProcess
    /\ watcher' = IF Did(done, "closeWatcher") THEN "closed" ELSE watcher
    \* process.exit() ends the process with code 0; an exception nobody catches, with 1
    /\ exitStatus' = IF Did(done, "exit") THEN "exit0" ELSE "exit1"
    /\ shutdownLog' = IF fault = "none" THEN done ELSE done \o <<fault, "uncaught">>
    /\ UNCHANGED <<pc, options, cppProcess, buildCommands, buildTimeout, firstRun,
                   sigHandlers, invs, timers, now, fsLog>>

\* without a registered handler the signal's default disposition ends the process
DefaultDisposition ==
  /\ exitStatus' = "signal"
  /\ UNCHANGED <<pc, options, viteProcess, watcher, cppProcess, buildCommands, buildTimeout,
                 firstRun, sigHandlers, procs, invs, timers, now, shutdownLog, fsLog>>

Signal ==
  /\ Alive /\ pc # "start"
  /\ \E sig \in Signals :
       IF sigHandlers THEN CleanUp ELSE DefaultDisposition

Next ==
  \/ RunDev
  \/ ServerTimeout
  \/ ServerReady
  \/ StepClose
  \/ OnChange
  \/ TimerFire
  \/ Tick
  \/ NativeExit
  \/ Signal

Spec == Init /\ [][Next]_vars

\* the same session with the watcher's input widened from modifications of
\* source files to every file event chokidar can observe
NextWatch ==
  \/ RunDev
  \/ ServerTimeout
  \/ ServerReady
  \/ StepClose
  \/ FsEvent
  \/ TimerFire
  \/ Tick
  \/ NativeExit
  \/ Signal

SpecWatch == Init /\ [][NextWatch]_vars

(***************************************************************************)
(* Vocabulary of the properties                                            *)
(***************************************************************************)
\* change event k is the one that created timer k
NChanges == Len(timers)
ChangeAt(k) == timers[k].setAt
Gap(k) == ChangeAt(k + 1) - ChangeAt(k)

\* the buildAndStartCpp invocations started by the timer of change event k
Rebuilds(k) == {i \in 1..Len(invs) : invs[i].trigger = "change" /\ invs[i].timer = k}
RebuildsOf(a, b) == UNION {Rebuilds(k) : k \in a..b}
ChangeInvs == {i \in 1..Len(invs) : invs[i].trigger = "change"}

\* the window after change event b has passed without a further event
WindowOver(b) ==
  IF b < NChanges THEN Gap(b) > DebounceMs
  ELSE Alive /\ now > ChangeAt(b) + DebounceMs

IsPrefix(a, b) == Len(a) <= Len(b) /\ \A j \in 1..Len(a) : a[j] = b[j]
\* the invocation has the configure and compile steps, in this order, and started configure
FullBuild(inv) ==
  /\ Len(inv.cmds) >= 2
  /\ inv.cmds[1] = Configure /\ inv.cmds[2] = Compile
  /\ Len(inv.started) >= 1
  /\ inv.started[1] = Configure

SkipBuild == pc # "start" /\ options.build = FALSE
SkipTests == pc # "start" /\ options.tests = FALSE

(***************************************************************************)
(* C1  Coalescing: in a run of change events each less than the debounce   *)
(* window after the previous one, no event but the last starts a rebuild,  *)
(* the run starts at most one rebuild, and exactly one once the window     *)
(* after its last event has passed (while the session lives).              *)
(***************************************************************************)
C1_Coalescing ==
  \A a \in 1..NChanges : \A b \in a..NChanges :
    (\A k \in a..(b - 1) : Gap(k) < DebounceMs) =>
      /\ \A k \in a..(b - 1) : Rebuilds(k) = {}
      /\ Cardinality(RebuildsOf(a, b)) <= 1
      /\ WindowOver(b) => Cardinality(RebuildsOf(a, b)) = 1

C1_Witness ==
  /\ NChanges = 3
  /\ Gap(1) < DebounceMs /\ Gap(1) > 0
  /\ Gap(2) < DebounceMs /\ Gap(2) > 0
  /\ WindowOver(3)
  /\ Cardinality(ChangeInvs) = 1

AllApart == \A k \in 1..(NChanges - 1) : Gap(k) > DebounceMs

(***************************************************************************)
(* C2  When consecutive change events are all more than the debounce       *)
(* window apart, each starts its own rebuild: every event but the last has *)
(* exactly one, the last at most one, and the number of rebuilds equals    *)
(* the number of events once the last window has passed.                   *)
(***************************************************************************)
C2_EachItsOwnRebuild ==
  AllApart =>
    /\ \A k \in 1..(NChanges - 1) : Cardinality(Rebuilds(k)) = 1
    /\ \A k \in 1..NChanges : Cardinality(Rebuilds(k)) <= 1
    /\ Cardinality(ChangeInvs) <= NChanges
    /\ (NChanges > 0 /\ WindowOver(NChanges)) => Cardinality(ChangeInvs) = NChanges

C2_Witness ==
  /\ NChanges = 2
  /\ AllApart
  /\ Cardinality(ChangeInvs) = 2
  /\ invs[2].at # invs[3].at

(***************************************************************************)
(* C3  With --no-build the first invocation of the session runs no build   *)
(* step, and every later one, started by a change, has the full configure, *)
(* compile sequence and starts with configure; whatever the options, no    *)
(* change-triggered invocation is skipped.                                 *)
(***************************************************************************)
C3_SkipOnlyFirst ==
  /\ SkipBuild =>
       \A i \in 1..Len(invs) :
         IF i = 1
         THEN invs[i].trigger = "initial" /\ invs[i].cmds = <<>> /\ invs[i].started = <<>>
         ELSE invs[i].trigger = "change" /\ FullBuild(invs[i])
  /\ \A i \in ChangeInvs : FullBuild(invs[i])

C3_Witness ==
  /\ SkipBuild
  /\ Len(invs) >= 2
  /\ invs[1].cmds = <<>> /\ invs[1].result = "launched"
  /\ invs[2].result = "launched"
  /\ Len(invs[2].codes) = Len(invs[2].cmds)

(***************************************************************************)
(* C4  As claimed: with --no-tests every invocation omits the test step    *)
(* and still has the configure and compile steps.                          *)
(***************************************************************************)
C4_Original ==
  SkipTests =>
    \A i \in 1..Len(invs) : invs[i].cmds = <<Configure, Compile>>

(***************************************************************************)
(* C4  As amended: with --no-tests no invocation has or starts the test    *)
(* step, and every invocation has exactly configure, compile, except the   *)
(* first invocation of a session run with --no-build, which has no step.   *)
(***************************************************************************)
C4_NoTestStep ==
  SkipTests =>
    \A i \in 1..Len(invs) :
      /\ \A j \in 1..Len(invs[i].cmds) : invs[i].cmds[j] # Test
      /\ \A j \in 1..Len(invs[i].started) : invs[i].started[j] # Test
      /\ IF i = 1 /\ SkipBuild
         THEN invs[i].cmds = <<>>
         ELSE invs[i].cmds = <<Configure, Compile>>
      /\ invs[i].result = "launched" => invs[i].started = invs[i].cmds

C4_Witness ==
  /\ SkipTests
  /\ \E i \in 1..Len(invs) :
       /\ invs[i].result = "launched"
       /\ invs[i].started = <<Configure, Compile>>
       /\ invs[i].codes = <<0, 0>>

(***************************************************************************)
(* C5  In one invocation a failed step (non-zero exit) is the last step    *)
(* started: the steps started are a prefix of the invocation's steps, each *)
(* started once, the failure is the last exit code received, and the       *)
(* invocation ends as failed, with no native process launched by it.       *)
(***************************************************************************)
C5_FailureStopsPipeline ==
  \A i \in 1..Len(invs) :
    LET inv == invs[i] IN
    /\ IsPrefix(inv.started, inv.cmds)
    /\ Len(inv.codes) <= Len(inv.started)
    /\ \A j \in 1..Len(inv.codes) :
         inv.codes[j] # 0 =>
           /\ j = Len(inv.codes)
           /\ Len(inv.started) = j
           /\ inv.result = "failed"
           /\ inv.proc = 0
    /\ inv.result = "failed" =>
         /\ inv.codes # <<>>
         /\ Len(inv.codes) = Len(inv.started)
         /\ inv.codes[Len(inv.codes)] # 0

C5_Witness ==
  \E i \in 1..Len(invs) :
    /\ invs[i].result = "failed"
    /\ invs[i].cmds = <<Configure, Compile, Test>>
    /\ invs[i].started = <<Configure>>
    /\ invs[i].codes = <<1>>

LiveUnsignaled == {p \in 1..Len(procs) : procs[p].alive /\ procs[p].signals = 0}

(***************************************************************************)
(* C6  As claimed: in every reachable state at most one native process     *)
(* started by the session is live and has not been sent a termination      *)
(* signal.                                                                 *)
(***************************************************************************)
C6_AtMostOneLiveNative == Cardinality(LiveUnsignaled) <= 1

(***************************************************************************)
(* C7  Once the readiness wait has timed out, runDev has ended with the    *)
(* error and stays ended: no build invocation, no native process, no       *)
(* watcher, no signal handlers, no timer, and never a clean exit.          *)
(***************************************************************************)
C7_AbortedState ==
  pc = "aborted" =>
    /\ invs = <<>> /\ buildCommands = <<>> /\ firstRun
    /\ procs = <<>> /\ cppProcess = 0
    /\ watcher = "null" /\ timers = <<>>
    /\ ~sigHandlers
    /\ exitStatus # "exit0"

\* C7: the aborted state is as described in every reachable state, and is never left
C7_TimeoutAborts ==
  /\ []C7_AbortedState
  /\ [][pc = "aborted" => pc' = "aborted"]_vars

C7_Witness == pc = "aborted" /\ exitStatus = "exit1" /\ viteProcess.handle

(***************************************************************************)
(* C8  The step in which a build step failure ends an invocation leaves    *)
(* the session running with the watcher active and no cleanup run, for the *)
(* initial build as for a rebuild; and an invocation entered after a       *)
(* failed one is a full rebuild started by a change.                       *)
(***************************************************************************)
C8_FailureStep ==
  \A i \in 1..Len(invs) :
    (invs[i].result = "running" /\ invs'[i].result = "failed") =>
      /\ exitStatus' = "running"
      /\ pc' = "running"
      /\ watcher' = "active"
      /\ sigHandlers'
      /\ shutdownLog' = <<>>

C8_AfterFailure ==
  \A i \in 1..Len(invs) : \A j \in (i + 1)..Len(invs) :
    (invs[i].result = "failed" /\ invs[i].codes # <<>>) =>
      invs[j].trigger = "change" /\ FullBuild(invs[j])

\* C8: a build step failure leaves the session running, and the next rebuild is a full one
C8_BuildFailureRecoverable ==
  /\ [][C8_FailureStep]_vars
  /\ []C8_AfterFailure

C8_Witness ==
  /\ Len(invs) >= 3
  /\ invs[1].result = "failed"
  /\ invs[2].result = "failed"
  /\ invs[2].at < invs[3].at
  /\ invs[3].result = "launched"
  /\ Alive /\ watcher = "active"

LaunchFailed(i) == invs[i].result \in {"launchError", "launchThrew"}

(***************************************************************************)
(* C9  As claimed: a launch failure never ends the controller: in every    *)
(* state in which a launch has failed, the process has not died of an      *)
(* uncaught error.                                                         *)
(***************************************************************************)
C9_LaunchFailureSurvived ==
  (\E i \in 1..Len(invs) : LaunchFailed(i)) => ~(exitStatus = "exit1" /\ shutdownLog = <<>>)

(***************************************************************************)
(* C10  Whenever cleanUp has run, what it did is, in this order: the kill  *)
(* of the native handle if one is recorded, the kill of the web server,    *)
(* the close of the watcher, the exit of the process; all of them when the *)
(* process exits with code 0, and otherwise the ones up to a statement     *)
(* that raised.                                                            *)
(***************************************************************************)
C10_ShutdownOrder ==
  shutdownLog # <<>> =>
    LET order == (IF cppProcess # 0 THEN <<"killNative">> ELSE <<>>)
                   \o <<"killWeb", "closeWatcher", "exit">>
        acts == SelectSeq(shutdownLog, LAMBDA a : a # "uncaught")
    IN /\ IsPrefix(acts, order)
       /\ exitStatus = "exit0" =>
            /\ shutdownLog = order
            /\ viteProcess.signals = 1
            /\ watcher = "closed"
       /\ exitStatus # "exit0" =>
            /\ exitStatus = "exit1"
            /\ shutdownLog[Len(shutdownLog)] = "uncaught"

C10_Witness ==
  /\ shutdownLog = <<"killNative", "killWeb", "closeWatcher", "exit">>
  /\ cppProcess # 0 /\ procs[cppProcess].signals = 1

(***************************************************************************)
(* C11  As claimed: whenever cleanUp has run, each of its cleanup actions  *)
(* has been attempted (the native kill if a handle is recorded, the web    *)
(* server kill, the watcher close), whether or not one of them raised, and *)
(* the process has exited.                                                 *)
(***************************************************************************)
C11_BestEffortCleanup ==
  shutdownLog # <<>> =>
    /\ cppProcess # 0 => Did(shutdownLog, "killNative")
    /\ Did(shutdownLog, "killWeb")
    /\ Did(shutdownLog, "closeWatcher")
    /\ ~Alive

(***************************************************************************)
(* C12  As claimed: when cleanUp has run to its process.exit(), the web    *)
(* server has been sent a termination signal, the watcher is closed, and   *)
(* no native process started by the session is live without having been    *)
(* sent a termination signal.                                              *)
(***************************************************************************)
C12_AllSignaledAtExit ==
  exitStatus = "exit0" =>
    /\ viteProcess.signals >= 1
    /\ watcher = "closed"
    /\ LiveUnsignaled = {}

(***************************************************************************)
(* C13  In every invocation the steps are configure, compile and, unless   *)
(* --no-tests, test, in this order; they are started in this order, each   *)
(* once, a step only after every earlier step of the invocation has closed *)
(* with exit code 0, so at most one step of an invocation is running.      *)
(***************************************************************************)
C13_FixedOrderSequential ==
  \A i \in 1..Len(invs) :
    LET inv == invs[i] IN
    /\ inv.cmds \in {<<>>, <<Configure, Compile>>, <<Configure, Compile, Test>>}
    /\ inv.cmds # <<>> => (Len(inv.cmds) = 3 <=> options.tests # FALSE)
    /\ IsPrefix(inv.started, inv.cmds)
    /\ Len(inv.started) <= Len(inv.codes) + 1
    /\ \A j \in 1..(Len(inv.started) - 1) : j <= Len(inv.codes) /\ inv.codes[j] = 0
    /\ inv.result = "running" => Len(inv.started) = Len(inv.codes) + 1

C13_Witness ==
  \E i \in 1..Len(invs) :
    /\ invs[i].started = <<Configure, Compile, Test>>
    /\ invs[i].codes = <<0, 0>>
    /\ invs[i].result = "running"

(***************************************************************************)
(* C14  firstRun is true exactly until the first buildAndStartCpp          *)
(* invocation is entered, whatever that invocation's outcome, and once     *)
(* false it is never true again; only the first invocation sees it true,   *)
(* and at most one invocation of the session has no build step.            *)
(***************************************************************************)
C14_FirstRunState ==
  /\ firstRun <=> invs = <<>>
  /\ \A i \in 1..Len(invs) : invs[i].first <=> i = 1
  /\ Cardinality({i \in 1..Len(invs) : invs[i].cmds = <<>>}) <= 1

\* C14: the state of firstRun in every reachable state, and firstRun never set again
C14_FirstRunOnce ==
  /\ []C14_FirstRunState
  /\ [][~firstRun => ~firstRun']_vars

C14_Witness ==
  /\ Len(invs) >= 2
  /\ invs[1].result = "failed"
  /\ invs[2].result = "launched"
  /\ ~firstRun

(***************************************************************************)
(* C15  In every reachable state at most one timer is pending, and it is   *)
(* the one recorded in buildTimeout; every earlier timer has been cleared  *)
(* or has fired, and a cleared timer has started no rebuild.               *)
(***************************************************************************)
C15_OnePendingTimer ==
  /\ Cardinality(Pending) <= 1
  /\ \A k \in Pending : k = buildTimeout /\ k = Len(timers)
  /\ buildTimeout = Len(timers)
  /\ \A k \in 1..Len(timers) :
       /\ timers[k].state = "cleared" => Rebuilds(k) = {}
       /\ timers[k].state = "fired" <=> Rebuilds(k) # {}
       /\ Cardinality(Rebuilds(k)) <= 1

C15_Witness ==
  /\ Len(timers) = 3
  /\ timers[1].state = "cleared"
  /\ timers[2].state = "fired"
  /\ timers[3].state = "pending"

Burst100 ==
  /\ NChanges = 3
  /\ Gap(1) = 100
  /\ Gap(2) = 100

(***************************************************************************)
(* C16  Every rebuild is entered exactly one debounce window after the     *)
(* change event whose timer started it, and no change event lies between   *)
(* that event and the rebuild; so after three change events 100 ms apart   *)
(* the one rebuild is entered 500 ms after the third.                      *)
(***************************************************************************)
C16_CountdownFromLast ==
  /\ \A i \in ChangeInvs :
       LET k == invs[i].timer IN
       /\ invs[i].at = ChangeAt(k) + DebounceMs
       /\ \A j \in 1..NChanges : j > k => ChangeAt(j) >= invs[i].at
  /\ Burst100 =>
       \A i \in ChangeInvs : invs[i].timer = 3 /\ invs[i].at = ChangeAt(3) + DebounceMs

C16_Witness ==
  /\ Burst100
  /\ Cardinality(ChangeInvs) = 1
  /\ \E i \in ChangeInvs : invs[i].at = ChangeAt(1) + 700

(***************************************************************************)
(* C17  As claimed: every build step the command runner starts ends in     *)
(* success or in a failure reported to its caller, also when its process   *)
(* could not be started: a step whose process could not be spawned has an  *)
(* outcome recorded for its caller and the session goes on.                *)
(***************************************************************************)
C17_RunnerReportsFailure ==
  \A i \in 1..Len(invs) :
    invs[i].result = "spawnError" => Alive /\ Len(invs[i].codes) = Len(invs[i].started)

\* the file events in fsLog that satisfy a condition on kind and path
Restarting(kinds) ==
  {k \in 1..Len(fsLog) : fsLog[k].kind \in kinds /\ ~Ignored(fsLog[k].path)}

(***************************************************************************)
(* C18  As claimed: every add, modify or delete event for a file under the *)
(* watch root and not under an excluded path (re)starts the debounce       *)
(* timer, and events under the excluded build and test paths never do: as  *)
(* many timers were created as such events were observed.                  *)
(***************************************************************************)
C18_Original == Len(timers) = Cardinality(Restarting(FsKinds))

(***************************************************************************)
(* C18  Amended: only a modify ('change') event for a file under the watch *)
(* root and not under an excluded path (re)starts the debounce timer; add  *)
(* and delete events and every event under the excluded build and test     *)
(* paths never do.  As many timers were created as such modify events were *)
(* observed, and the recorded handle is the timer of the latest of them.   *)
(***************************************************************************)
C18_OnlyModifyRestarts ==
  /\ Len(timers) = Cardinality(Restarting({"change"}))
  /\ buildTimeout = Len(timers)

C18_Witness ==
  /\ Len(fsLog) = MaxFsEvents /\ Len(timers) = 1
  /\ \E k \in 1..Len(fsLog) : fsLog[k] = [kind |-> "change", path |-> "src-celaris"]
  /\ \E k \in 1..Len(fsLog) : fsLog[k].kind # "change" \/ Ignored(fsLog[k].path)

\* the command runner could not start the process of a step of invocation i
NotStarted(i) ==
  \/ invs[i].result = "spawnError"
  \/ \E j \in 1..Len(invs[i].codes) : invs[i].codes[j] = SpawnThrew

\* cleanUp ran to its end
CleanShutdown == shutdownLog # <<>> /\ shutdownLog[Len(shutdownLog)] = "exit"

(***************************************************************************)
(* C19  As claimed: the exit code of the session is 0 after a clean,       *)
(* signal-triggered shutdown; a session whose web server never became      *)
(* reachable within the timeout does not end with code 0; and a session in *)
(* which the command runner could not start a required tool does not end   *)
(* with code 0 either.                                                     *)
(***************************************************************************)
C19_ExitCodes ==
  /\ CleanShutdown /\ (\A i \in 1..Len(invs) : ~NotStarted(i)) => exitStatus = "exit0"
  /\ pc = "aborted" => exitStatus # "exit0"
  /\ (\E i \in 1..Len(invs) : NotStarted(i)) => exitStatus # "exit0"

\* the buildAndStartCpp invocations whose build pipeline has not settled
InProgress == {i \in 1..Len(invs) : invs[i].result = "running"}

(***************************************************************************)
(* C20  As claimed: rebuilds exclude each other.  In every reachable state *)
(* at most one buildAndStartCpp invocation is in progress: a debounce      *)
(* timer that fires while an earlier rebuild is still running starts no    *)
(* second, overlapping invocation.                                         *)
(***************************************************************************)
C20_MutualExclusion == Cardinality(InProgress) <= 1

\* the invocations whose pipeline was rejected
FailedInvs == {i \in 1..Len(invs) : invs[i].result = "failed"}

\* the invocations whose .then callback ran: a launch was attempted
LaunchAttempted == {i \in 1..Len(invs) :
                      invs[i].result \in {"launched", "launchError", "launchThrew"}}

\* every step of invocation i was started and closed with code 0
PipelineSucceeded(i) ==
  /\ Len(invs[i].codes) = Len(invs[i].cmds)
  /\ \A j \in 1..Len(invs[i].codes) : invs[i].codes[j] = 0

(***************************************************************************)
(* C21  As claimed: a termination signal received in any phase of the      *)
(* session runs the cleanup: no session is ended by a signal without       *)
(* cleanUp having run.                                                     *)
(***************************************************************************)
C21_SignalRunsCleanup == exitStatus = "signal" => shutdownLog # <<>>

(***************************************************************************)
(* C22  As claimed: when the pipeline of a rebuild fails, the native       *)
(* process recorded before it has not been sent a termination signal by    *)
(* that rebuild.                                                           *)
(***************************************************************************)
C22_Original ==
  \A i \in FailedInvs : invs[i].killed # 0 => ~invs[i].sent

(***************************************************************************)
(* C22  Amended: when the pipeline of a rebuild fails, the native process  *)
(* recorded before it was sent a termination signal at the entry of that   *)
(* rebuild if its handle was still open, so it is signalled or already     *)
(* gone; the failed rebuild launches no native process of its own.         *)
(***************************************************************************)
C22_FailedRebuildKilledPrevious ==
  \A i \in FailedInvs :
    /\ invs[i].proc = 0
    /\ invs[i].killed # 0 =>
         /\ invs[i].sent \/ ~procs[invs[i].killed].alive
         /\ invs[i].sent => procs[invs[i].killed].signals >= 1

C22_Witness ==
  \E i \in FailedInvs :
    /\ invs[i].trigger = "change" /\ invs[i].killed # 0 /\ invs[i].sent
    /\ procs[invs[i].killed].alive /\ procs[invs[i].killed].signals = 1
    /\ cppProcess = invs[i].killed

(***************************************************************************)
(* C23  As claimed: after every pipeline run, failed or successful, the    *)
(* process launcher is invoked: every invocation whose pipeline has        *)
(* settled attempted a launch.                                             *)
(***************************************************************************)
C23_Original ==
  \A i \in 1..Len(invs) :
    invs[i].result \notin {"running", "spawnError"} => i \in LaunchAttempted

(***************************************************************************)
(* C23  Amended: the process launcher is invoked after a pipeline run      *)
(* exactly when the run succeeded; after a failed pipeline no launch is    *)
(* attempted and the failure is only logged.                               *)
(***************************************************************************)
C23_LaunchOnlyAfterSuccess ==
  \A i \in 1..Len(invs) :
    /\ i \in LaunchAttempted <=> PipelineSucceeded(i)
    /\ i \in FailedInvs => invs[i].proc = 0 /\ ~PipelineSucceeded(i)

C23_Witness ==
  /\ \E i \in FailedInvs : invs[i].cmds # <<>> /\ invs[i].proc = 0
  /\ \E i \in LaunchAttempted : invs[i].cmds # <<>> /\ invs[i].proc # 0

\* how often cleanUp recorded the statement `step`
TimesDone(step) == Cardinality({j \in 1..Len(shutdownLog) : shutdownLog[j] = step})

(***************************************************************************)
(* C24  Startup ordering.  The web server is spawned before anything else; *)
(* no build step starts before the server was observed reachable; a native *)
(* process is launched only by an invocation whose pipeline has finished;  *)
(* the watcher is created only after the initial build-and-launch has      *)
(* settled, so every change-triggered invocation comes after it.           *)
(***************************************************************************)
C24_StartupOrder ==
  /\ pc # "start" => viteProcess.handle
  /\ invs # <<>> => /\ pc \in {"building", "running"}
                    /\ invs[1].trigger = "initial"
  /\ \A p \in 1..Len(procs) : PipelineSucceeded(procs[p].inv)
  /\ (watcher # "null" \/ timers # <<>> \/ Len(invs) > 1) =>
       /\ invs # <<>> /\ invs[1].result \notin {"running", "spawnError"}
       /\ pc = "running"
  /\ \A i \in 2..Len(invs) : invs[i].trigger = "change"

C24_Witness ==
  /\ pc = "running" /\ watcher = "active" /\ viteProcess.handle
  /\ Len(invs) >= 2 /\ invs[1].result = "launched" /\ invs[1].cmds # <<>>
  /\ invs[2].trigger = "change" /\ invs[2].result = "launched"

C26_CleanUpState ==
  shutdownLog # <<>> =>
    /\ ~Alive
    /\ viteProcess.signals <= 1
    /\ \A step \in {"killNative", "killWeb", "closeWatcher", "exit"} : TimesDone(step) <= 1

\* C26: after cleanUp has run nothing in the session changes any more
C26_CleanUpOnce == [](C26_CleanUpState) /\ [][shutdownLog = <<>>]_vars

C26_Witness ==
  /\ shutdownLog = <<"killNative", "killWeb", "closeWatcher", "exit">>
  /\ viteProcess.signals = 1 /\ procs[cppProcess].alive /\ procs[cppProcess].signals = 1
  /\ \E i \in 1..Len(invs) : invs[i].result = "running"

\* a build step of invocation i is in flight: started and not closed
StepInFlight(i) ==
  invs[i].result = "running" /\ Len(invs[i].started) = Len(invs[i].codes) + 1

(***************************************************************************)
(* C27  The step in which cleanUp runs signals nothing but the recorded    *)
(* native process and the web server and closes the watcher: every build   *)
(* invocation, with its step in flight, and every native handle other than *)
(* the recorded one is left as it was.                                     *)
(***************************************************************************)
C27_CleanupFrame ==
  [][shutdownLog' # shutdownLog =>
       /\ invs' = invs /\ timers' = timers /\ cppProcess' = cppProcess
       /\ Len(procs') = Len(procs)
       /\ \A p \in 1..Len(procs) : p # cppProcess => procs'[p] = procs[p]
       /\ viteProcess'.signals <= viteProcess.signals + 1]_vars

C27_Witness ==
  /\ CleanShutdown /\ viteProcess.signals = 1 /\ watcher = "closed"
  /\ cppProcess # 0 /\ procs[cppProcess].signals >= 1
  /\ \E i \in 1..Len(invs) : StepInFlight(i) /\ invs[i].trigger = "change"

(***************************************************************************)
(* C28  As claimed: the recorded native handle is signalled at the entry   *)
(* of an invocation, before its first build step, so that while the        *)
(* pipeline of an invocation is running the native process the session     *)
(* has recorded is never alive and un-signalled.                           *)
(***************************************************************************)
C28_KilledWhileBuilding ==
  (\E i \in 1..Len(invs) : StepInFlight(i)) =>
     \/ cppProcess = 0
     \/ ~procs[cppProcess].alive
     \/ procs[cppProcess].signals >= 1

(***************************************************************************)
(* C29  Once cleanUp has run, no build step is started, no native process  *)
(* is spawned and no debounce timer fires, also when a rebuild was in      *)
(* flight or a timer was pending at the signal.                            *)
(***************************************************************************)
C29_NothingAfterCleanup ==
  [][shutdownLog # <<>> => invs' = invs /\ procs' = procs /\ timers' = timers]_vars

C29_Witness ==
  /\ shutdownLog # <<>> /\ ~Alive
  /\ Pending # {}
  /\ \E i \in 1..Len(invs) : StepInFlight(i)

(***************************************************************************)
(* C30  In the abort state after the readiness timeout the web server      *)
(* handle is recorded and was sent no signal, the cleanup handlers were    *)
(* never registered and cleanUp never ran.                                 *)
(***************************************************************************)
C30_AbortLeavesServer ==
  pc = "aborted" =>
    /\ viteProcess.handle /\ viteProcess.signals = 0
    /\ ~sigHandlers /\ shutdownLog = <<>>

C30_Witness ==
  /\ pc = "aborted" /\ exitStatus = "signal"
  /\ viteProcess.handle /\ viteProcess.signals = 0

\* change event k was followed by an invocation that started after it: the
\* one of its own timer or of the timer of a later change
Served(k) ==
  \E i \in 1..Len(invs) : invs[i].trigger = "change" /\ invs[i].timer >= k

\* the session is over and no termination signal was ever delivered to it
EndedUnsignalled == ~Alive /\ shutdownLog = <<>> /\ exitStatus # "signal"

(***************************************************************************)
(* C31  As claimed: no observed change is lost.  Absent a termination      *)
(* signal every change event is followed by a buildAndStartCpp invocation  *)
(* that starts after it; so a session that is over without a signal having *)
(* been delivered has served every change event it observed, none is left  *)
(* with its timer pending.                                                 *)
(***************************************************************************)
C31_NoChangeLost ==
  EndedUnsignalled => \A k \in 1..Len(timers) : Served(k)

====
